---- MODULE Spec2Model ----
(***************************************************************************)
(* babysql: the fluent SQL builder of src/src/index.ts (BabySQLBuilder and *)
(* the BabySQL factory).                                                   *)
(*                                                                         *)
(* A JavaScript string is modelled as the sequence of its pieces (a        *)
(* template literal contributes its literal pieces and its substituted     *)
(* values in order), so the string is the concatenation of the sequence    *)
(* and a `?` placeholder is a piece equal to "?".  Names (tables, columns, *)
(* operators) are single pieces that contain no `?`.                       *)
(*                                                                         *)
(* A JavaScript value (Primitive | undefined) is a record with a type tag; *)
(* an integer-valued number n is kept as hi * Radix + lo with              *)
(* lo \in 0 .. Radix-1, so that numbers beyond 32 bits are represented     *)
(* exactly and `n | 0` keeps its 32-bit width.                             *)
(***************************************************************************)
EXTENDS Integers, Sequences, FiniteSets, TLC

VARIABLES
    b,        \* the builder object: the fields of BabySQLBuilder
    ret,      \* what the most recent call returned or threw
    console,  \* what the most recent call wrote with console.log
    call,     \* the most recent call: method name and arguments
    called,   \* the names of the methods called so far on the builder
    builtAt,  \* configuration calls made when build() first returned; -1 if never
    ncalls    \* number of configuration calls made so far

vars == <<b, ret, console, call, called, builtAt, ncalls>>

\* Longest chain of configuration calls explored on one builder.
MaxCalls == 3

(***************************************************************************)
(* JavaScript values                                                       *)
(***************************************************************************)
\* 2^16: two digits of this radix are the 32 bits kept by `| 0`.
Radix == 65536

\* 2^15: the weight of the sign bit within the high digit of a 32-bit word.
HalfRadix == 32768

Undefined == [t |-> "undefined", hi |-> 0, lo |-> 0, str |-> <<>>]

Null == [t |-> "null", hi |-> 0, lo |-> 0, str |-> <<>>]

NumV(hi, lo) == [t |-> "number", hi |-> hi, lo |-> lo, str |-> <<>>]

\* The number whose value is the (small) integer i.
Num(i) == NumV(i \div Radix, i % Radix)

\* The string whose pieces are s.
Str(s) == [t |-> "string", hi |-> 0, lo |-> 0, str |-> s]

IsNumber(v) == v.t = "number"

\* n | 0 : ToInt32, the value modulo 2^32 read as a signed 32-bit integer.
ToInt32(v) == (((v.hi + HalfRadix) % Radix) - HalfRadix) * Radix + v.lo

\* Math.max(x, y) on 32-bit integers.
MathMax(x, y) == IF x >= y THEN x ELSE y

NumAdd(x, y) ==
    LET l == x.lo + y.lo
    IN  NumV(x.hi + y.hi + (l \div Radix), l % Radix)

\* k * x for a small factor 0 <= k <= 256.
NumScale(x, k) ==
    LET l == x.lo * k
    IN  NumV(x.hi * k + (l \div Radix), l % Radix)

\* floor(x / 256).
NumShift8(x) == NumV(x.hi \div 256, ((x.hi % 256) * Radix + x.lo) \div 256)

\* x * y on numbers, y >= 0, eight bits of y at a time (exact while the
\* product is below 2^47, where the double-precision product of the code
\* is exact as well).
RECURSIVE NumMul(_, _)
NumMul(x, y) ==
    IF y.hi = 0 /\ y.lo = 0 THEN Num(0)
    ELSE NumAdd(NumScale(x, y.lo % 256),
                NumScale(NumMul(x, NumShift8(y)), 256))

(***************************************************************************)
(* Strings as sequences of pieces                                          *)
(***************************************************************************)
\* Array.prototype.join on an array of strings.
RECURSIVE Join(_, _)
Join(parts, sep) ==
    IF Len(parts) = 0 THEN <<>>
    ELSE IF Len(parts) = 1 THEN parts[1]
    ELSE parts[1] \o <<sep>> \o Join(Tail(parts), sep)

\* params.push(...xs) for each xs of a list, in order.
RECURSIVE Flatten(_)
Flatten(lists) ==
    IF Len(lists) = 0 THEN <<>> ELSE lists[1] \o Flatten(Tail(lists))

(***************************************************************************)
(* BabySQLBuilder                                                          *)
(***************************************************************************)
QueryType == {"select", "count", "insert", "update", "delete"}

NullData == [isNull |-> TRUE, entries |-> <<>>]

\* constructor(type, table) with the field initialisers of the class.
NewBuilder(type, table) ==
    [ type         |-> type,
      table        |-> table,
      _columns     |-> <<>>,
      _data        |-> NullData,
      _wheres      |-> <<>>,
      _order       |-> <<>>,
      _limit       |-> Undefined,
      _offset      |-> Undefined,
      _countColumn |-> "*",
      _countAlias  |-> "total",
      _allowUnsafe |-> FALSE,
      _debug       |-> FALSE ]

countColumn(self, col, alias) ==
    [self EXCEPT !._countColumn = col, !._countAlias = alias]

\* Faulty variant of data: an empty object is stored as no payload.
data_EmptyIsNull(self, obj) ==
    [self EXCEPT !._data = IF Len(obj) = 0 THEN NullData
                           ELSE [isNull |-> FALSE, entries |-> obj]]

\* obj is given as the sequence of its own [k, v] properties in the order
\* Object.keys enumerates them; the spread copy keeps that order.
data(self, obj) ==
    [self EXCEPT !._data = [isNull |-> FALSE, entries |-> obj]]

columns(self, isArray, cols) ==
    [self EXCEPT !._columns = IF isArray THEN cols ELSE <<cols>>]

where(self, column, op, value, connector) ==
    [self EXCEPT !._wheres = Append(@,
        [ sql       |-> <<column, " ", op, " ", "?">>,
          params    |-> <<value>>,
          connector |-> connector ])]

whereLike(self, column, value, mode, connector) ==
    LET val == IF mode = "both" THEN <<"%">> \o value \o <<"%">>
               ELSE IF mode = "left" THEN <<"%">> \o value
               ELSE IF mode = "right" THEN value \o <<"%">>
               ELSE value
    IN  [self EXCEPT !._wheres = Append(@,
            [ sql       |-> <<column, " LIKE ", "?">>,
              params    |-> <<Str(val)>>,
              connector |-> connector ])]

whereIn(self, column, values, connector) ==
    IF Len(values) = 0
    THEN [self EXCEPT !._wheres = Append(@,
            [sql |-> <<"1=0">>, params |-> <<>>, connector |-> connector])]
    ELSE LET placeholders == Join([i \in 1 .. Len(values) |-> <<"?">>], ", ")
         IN  [self EXCEPT !._wheres = Append(@,
                [ sql       |-> <<column, " IN (">> \o placeholders \o <<")">>,
                  params    |-> values,
                  connector |-> connector ])]

whereRaw(self, sql, params, connector) ==
    [self EXCEPT !._wheres = Append(@,
        [ sql       |-> <<"(">> \o sql \o <<")">>,
          params    |-> params,
          connector |-> connector ])]

orderBy(self, column, dir) ==
    [self EXCEPT !._order = Append(@, [col |-> column, dir |-> dir])]

limit(self, n) ==
    [self EXCEPT !._limit = Num(MathMax(0, ToInt32(n)))]

offset(self, n) ==
    [self EXCEPT !._offset = Num(MathMax(0, ToInt32(n)))]

paginate(self, page, pageSize) ==
    LET p    == MathMax(1, ToInt32(page))
        size == MathMax(1, ToInt32(pageSize))
    IN  [self EXCEPT !._limit  = Num(size),
                     !._offset = NumMul(Num(p - 1), Num(size))]

debug(self, enable) == [self EXCEPT !._debug = enable]

allowUnsafe(self) == [self EXCEPT !._allowUnsafe = TRUE]

(***************************************************************************)
(* build()                                                                 *)
(***************************************************************************)
This == [k |-> "this", error |-> "", sql |-> <<>>, params |-> <<>>]

Thrown(error) == [k |-> "throw", error |-> error, sql |-> <<>>, params |-> <<>>]

Built(sql, params) == [k |-> "built", error |-> "", sql |-> sql, params |-> params]

\* Faulty variant of Values: the values are taken in reverse key order.
Values_Reversed(self) ==
    [i \in 1 .. Len(self._data.entries) |->
        self._data.entries[Len(self._data.entries) + 1 - i].v]

\* Object.keys(this._data) and keys.map(k => this._data[k]).
Keys(self) == [i \in 1 .. Len(self._data.entries) |-> self._data.entries[i].k]

Values(self) == [i \in 1 .. Len(self._data.entries) |-> self._data.entries[i].v]

\* Faulty variant of HeadError: delete is not gated.
HeadError_NoDeleteGate(self) ==
    IF self.type = "insert" /\ self._data.isNull THEN "MissingPayload"
    ELSE IF self.type = "update" /\ self._data.isNull THEN "MissingPayload"
    ELSE IF self.type = "update" /\ Len(self._wheres) = 0 /\ ~self._allowUnsafe
         THEN "UnsafeStatement"
    ELSE ""

\* Faulty variant of HeadError: update checks the gate before the payload.
HeadError_UnsafeFirst(self) ==
    IF self.type = "insert" /\ self._data.isNull THEN "MissingPayload"
    ELSE IF self.type = "update" /\ Len(self._wheres) = 0 /\ ~self._allowUnsafe
         THEN "UnsafeStatement"
    ELSE IF self.type = "update" /\ self._data.isNull THEN "MissingPayload"
    ELSE IF self.type = "delete" /\ Len(self._wheres) = 0 /\ ~self._allowUnsafe
         THEN "UnsafeStatement"
    ELSE ""

\* The error build() throws in the branch of the statement kind, or "":
\* "MissingPayload" stands for the Error that asks for data() first,
\* "UnsafeStatement" for the Error that refuses a statement without WHERE.
HeadError(self) ==
    IF self.type = "insert" /\ self._data.isNull THEN "MissingPayload"
    ELSE IF self.type = "update" /\ self._data.isNull THEN "MissingPayload"
    ELSE IF self.type = "update" /\ Len(self._wheres) = 0 /\ ~self._allowUnsafe
         THEN "UnsafeStatement"
    ELSE IF self.type = "delete" /\ Len(self._wheres) = 0 /\ ~self._allowUnsafe
         THEN "UnsafeStatement"
    ELSE ""

\* The statement head and the parameters pushed with it.
HeadSql(self) ==
    IF self.type = "select"
    THEN LET cols == IF Len(self._columns) > 0
                     THEN Join([i \in 1 .. Len(self._columns) |-> <<self._columns[i]>>], ", ")
                     ELSE <<"*">>
         IN  <<"SELECT ">> \o cols \o <<" FROM ", self.table>>
    ELSE IF self.type = "count"
    THEN <<"SELECT COUNT(", self._countColumn, ") AS ", self._countAlias,
           " FROM ", self.table>>
    ELSE IF self.type = "insert"
    THEN LET keys == Keys(self)
             placeholders == Join([i \in 1 .. Len(keys) |-> <<"?">>], ", ")
         IN  <<"INSERT INTO ", self.table, " (">>
               \o Join([i \in 1 .. Len(keys) |-> <<keys[i]>>], ", ")
               \o <<") VALUES (">> \o placeholders \o <<")">>
    ELSE IF self.type = "update"
    THEN LET keys == Keys(self)
             sets == Join([i \in 1 .. Len(keys) |-> <<keys[i], " = ", "?">>], ", ")
         IN  <<"UPDATE ", self.table, " SET ">> \o sets
    ELSE <<"DELETE FROM ", self.table>>

HeadParams(self) ==
    IF self.type \in {"insert", "update"} THEN Values(self) ELSE <<>>

\* Faulty variant of WhereSql: every fragment is joined with AND.
WhereSql_AlwaysAnd(self) ==
    IF Len(self._wheres) > 0
    THEN LET parts == [i \in 1 .. Len(self._wheres) |->
                          IF i = 1 THEN self._wheres[i].sql
                          ELSE <<"AND", " ">> \o self._wheres[i].sql]
         IN  <<" WHERE ">> \o Join(parts, " ")
    ELSE <<>>

WhereSql(self) ==
    IF Len(self._wheres) > 0
    THEN LET parts == [i \in 1 .. Len(self._wheres) |->
                          IF i = 1 THEN self._wheres[i].sql
                          ELSE <<self._wheres[i].connector, " ">> \o self._wheres[i].sql]
         IN  <<" WHERE ">> \o Join(parts, " ")
    ELSE <<>>

WhereParams(self) ==
    Flatten([i \in 1 .. Len(self._wheres) |-> self._wheres[i].params])

\* Faulty variant of OrderSql: ORDER BY is appended for every kind.
OrderSql_AnyKind(self) ==
    IF Len(self._order) > 0
    THEN <<" ORDER BY ">>
           \o Join([i \in 1 .. Len(self._order) |->
                      <<self._order[i].col, " ", self._order[i].dir>>], ", ")
    ELSE <<>>

OrderSql(self) ==
    IF Len(self._order) > 0 /\ self.type = "select"
    THEN <<" ORDER BY ">>
           \o Join([i \in 1 .. Len(self._order) |->
                      <<self._order[i].col, " ", self._order[i].dir>>], ", ")
    ELSE <<>>

LimitSql(self) ==
    IF self.type # "count"
    THEN IF IsNumber(self._limit)
         THEN <<" LIMIT ", "?">>
                \o (IF IsNumber(self._offset) THEN <<" OFFSET ", "?">> ELSE <<>>)
         ELSE IF IsNumber(self._offset) THEN <<" OFFSET ", "?">> ELSE <<>>
    ELSE <<>>

\* Faulty variant of LimitParams: the offset that follows a limit is not
\* pushed.
LimitParams_NoOffset(self) ==
    IF self.type # "count"
    THEN IF IsNumber(self._limit) THEN <<self._limit>>
         ELSE IF IsNumber(self._offset) THEN <<self._offset>> ELSE <<>>
    ELSE <<>>

LimitParams(self) ==
    IF self.type # "count"
    THEN IF IsNumber(self._limit)
         THEN <<self._limit>>
                \o (IF IsNumber(self._offset) THEN <<self._offset>> ELSE <<>>)
         ELSE IF IsNumber(self._offset) THEN <<self._offset>> ELSE <<>>
    ELSE <<>>

\* What build() returns or throws from the builder self.
Render(self) ==
    IF HeadError(self) # "" THEN Thrown(HeadError(self))
    ELSE IF self.type # "insert"
    THEN Built(HeadSql(self) \o WhereSql(self) \o OrderSql(self) \o LimitSql(self),
               HeadParams(self) \o WhereParams(self) \o LimitParams(self))
    ELSE Built(HeadSql(self), HeadParams(self))

\* The two console.log lines of debug mode.
DebugLines(self, r) ==
    IF self._debug /\ r.k = "built"
    THEN << <<"[BabySQL DEBUG] SQL:", r.sql>>, <<"[BabySQL DEBUG] PARAMS:", r.params>> >>
    ELSE <<>>

\* Faulty variant of build: rendering consumes the predicate list.
build_Consuming(self) ==
    [ self    |-> [self EXCEPT !._wheres = <<>>],
      ret     |-> Render(self),
      console |-> DebugLines(self, Render(self)) ]

\* build(): the builder after the call (no field is assigned), the value
\* returned or the error thrown, and the lines written to the console.
build(self) ==
    [self |-> self, ret |-> Render(self), console |-> DebugLines(self, Render(self))]

(***************************************************************************)
(* Arguments the calls are tried with                                      *)
(***************************************************************************)
Tables == {"users"}

ColumnArrays == {<<"id", "name">>}

ColumnNames == {"id"}

Bob == Str(<<"bob">>)

Payloads ==
    { <<>>,
      <<[k |-> "name", v |-> Bob], [k |-> "age", v |-> Num(20)]>>,
      <<[k |-> "age", v |-> Num(21)], [k |-> "name", v |-> Null]>> }

WhereArgs ==
    { <<"status", "=", Str(<<"active">>), "AND">>,
      <<"age", ">", Num(18), "OR">> }

LikeArgs == { <<"name", <<"alice">>, m, "AND">> : m \in {"both", "left", "right"} }

InArgs == { <<"id", <<>>, "OR">>, <<"id", <<Num(1), Num(2)>>, "AND">> }

\* The last one has a placeholder and no parameter: text and parameters of
\* a raw predicate are the caller's to align.
RawArgs ==
    { <<<<"a = ", "?", " OR b = ", "?">>, <<Num(1), Num(2)>>, "AND">>,
      <<<<"deleted_at IS NULL">>, <<>>, "OR">>,
      <<<<"c = ", "?">>, <<>>, "AND">> }

OrderArgs == { <<"id", "DESC">>, <<"name", "ASC">> }

LimitArgs == {Num(20)}

OffsetArgs == {Num(40)}

PageArgs == { <<Num(3), Num(10)>> }

CountArgs == { <<"id", "userCount">> }

\* Numbers around the 32-bit boundaries: -2^31 - 1, -1, 0, 20, 2^31 - 1,
\* 2^31, 2^32 + 5.
WideNumbers ==
    { NumV(-32769, 65535), Num(-1), Num(0), Num(20), NumV(32767, 65535),
      NumV(32768, 0), NumV(65536, 5) }

\* Pages and page sizes, all at least 1: (1, 10), (3, 10), (3, 2^30),
\* (2^32 + 3, 10).
WidePages ==
    { <<Num(1), Num(10)>>, <<Num(3), Num(10)>>, <<Num(3), NumV(16384, 0)>>,
      <<NumV(65536, 3), Num(10)>> }

(***************************************************************************)
(* The calls                                                               *)
(***************************************************************************)
\* A chained configuration call: it leaves the builder as nb and returns it.
Configure(op, args, nb) ==
    /\ ncalls < MaxCalls
    /\ b' = nb
    /\ ret' = This
    /\ console' = <<>>
    /\ call' = [op |-> op, args |-> args]
    /\ called' = called \cup {op}
    /\ ncalls' = ncalls + 1
    /\ UNCHANGED builtAt

DoCountColumn(a) == Configure("countColumn", a, countColumn(b, a[1], a[2]))

DoData(obj) == Configure("data", <<obj>>, data(b, obj))

DoColumnsArray(cols) == Configure("columns", <<cols>>, columns(b, TRUE, cols))

DoColumnsName(col) == Configure("columns", <<col>>, columns(b, FALSE, col))

DoWhere(a) == Configure("where", a, where(b, a[1], a[2], a[3], a[4]))

DoWhereLike(a) == Configure("whereLike", a, whereLike(b, a[1], a[2], a[3], a[4]))

DoWhereIn(a) == Configure("whereIn", a, whereIn(b, a[1], a[2], a[3]))

DoWhereRaw(a) == Configure("whereRaw", a, whereRaw(b, a[1], a[2], a[3]))

DoOrderBy(a) == Configure("orderBy", a, orderBy(b, a[1], a[2]))

DoLimit(n) == Configure("limit", <<n>>, limit(b, n))

DoOffset(n) == Configure("offset", <<n>>, offset(b, n))

DoPaginate(a) == Configure("paginate", a, paginate(b, a[1], a[2]))

DoDebug(enable) == Configure("debug", <<enable>>, debug(b, enable))

DoAllowUnsafe == Configure("allowUnsafe", <<>>, allowUnsafe(b))

DoBuild ==
    LET r == build(b)
    IN  /\ b' = r.self
        /\ ret' = r.ret
        /\ console' = r.console
        /\ call' = [op |-> "build", args |-> <<>>]
        /\ called' = called \cup {"build"}
        /\ builtAt' = IF builtAt = -1 /\ r.ret.k = "built" THEN ncalls ELSE builtAt
        /\ UNCHANGED ncalls

\* BabySQL.select / count / insert / update / delete (table).
Init ==
    \E type \in QueryType, table \in Tables :
        /\ b = NewBuilder(type, table)
        /\ ret = This
        /\ console = <<>>
        /\ call = [op |-> type, args |-> <<table>>]
        /\ called = {}
        /\ builtAt = -1
        /\ ncalls = 0

Next ==
    \/ \E a \in CountArgs : DoCountColumn(a)
    \/ \E obj \in Payloads : DoData(obj)
    \/ \E cols \in ColumnArrays : DoColumnsArray(cols)
    \/ \E col \in ColumnNames : DoColumnsName(col)
    \/ \E a \in WhereArgs : DoWhere(a)
    \/ \E a \in LikeArgs : DoWhereLike(a)
    \/ \E a \in InArgs : DoWhereIn(a)
    \/ \E a \in RawArgs : DoWhereRaw(a)
    \/ \E a \in OrderArgs : DoOrderBy(a)
    \/ \E n \in LimitArgs : DoLimit(n)
    \/ \E n \in OffsetArgs : DoOffset(n)
    \/ \E a \in PageArgs : DoPaginate(a)
    \/ \E enable \in BOOLEAN : DoDebug(enable)
    \/ DoAllowUnsafe
    \/ DoBuild

Spec == Init /\ [][Next]_vars

\* The numeric calls alone, tried with numbers beyond 32 bits.
NextNum ==
    \/ \E n \in WideNumbers : DoLimit(n)
    \/ \E n \in WideNumbers : DoOffset(n)
    \/ \E a \in WidePages : DoPaginate(a)
    \/ DoBuild

SpecNum == Init /\ [][NextNum]_vars

(***************************************************************************)
(* Vocabulary of the properties                                            *)
(***************************************************************************)
\* Number of pieces of s equal to tok.
RECURSIVE Count(_, _)
Count(s, tok) ==
    IF Len(s) = 0 THEN 0
    ELSE (IF s[1] = tok THEN 1 ELSE 0) + Count(Tail(s), tok)

Has(s, tok) == \E i \in 1 .. Len(s) : s[i] = tok

\* build() was the most recent call and it returned a query.
JustBuilt == call.op = "build" /\ ret.k = "built"

\* Every whereRaw fragment (the only fragments opening with a parenthesis)
\* carries as many parameters as its text has placeholders.
RawAligned ==
    \A i \in 1 .. Len(b._wheres) :
        b._wheres[i].sql[1] = "(" =>
            Count(b._wheres[i].sql, "?") = Len(b._wheres[i].params)

LimitSet == IsNumber(b._limit)

OffsetSet == IsNumber(b._offset)

(***************************************************************************)
(* C1  Safety gate                                                         *)
(***************************************************************************)
\* C1, as stated: on an update or delete builder build() never returns SQL
\* without a WHERE clause unless allowUnsafe() was called earlier; with an
\* empty predicate list and no allowUnsafe() build() raises UnsafeStatement;
\* a delete builder with an empty predicate list builds, after
\* allowUnsafe(), to exactly DELETE FROM <table>.
C1_SafetyGateAsStated ==
    /\ (b.type \in {"update", "delete"} /\ JustBuilt /\ ~Has(ret.sql, " WHERE "))
          => "allowUnsafe" \in called
    /\ (b.type \in {"update", "delete"} /\ call.op = "build"
            /\ Len(b._wheres) = 0 /\ "allowUnsafe" \notin called)
          => ret = Thrown("UnsafeStatement")
    /\ (b.type = "delete" /\ call.op = "build"
            /\ Len(b._wheres) = 0 /\ "allowUnsafe" \in called)
          => ret.k = "built" /\ ret.sql = <<"DELETE FROM ", b.table>>

\* C1, amended: on an update or delete builder build() never returns SQL
\* without a WHERE clause unless allowUnsafe() was called earlier; with an
\* empty predicate list and no allowUnsafe() build() raises UnsafeStatement
\* on a delete builder and on an update builder whose data() was called
\* (MissingPayload on an update builder without data); a delete builder
\* with an empty predicate list builds, after allowUnsafe(), to
\* DELETE FROM <table> with no WHERE clause, followed by nothing but the
\* LIMIT / OFFSET clauses of a configured limit or offset.
C1_SafetyGate ==
    /\ (b.type \in {"update", "delete"} /\ JustBuilt /\ ~Has(ret.sql, " WHERE "))
          => "allowUnsafe" \in called
    /\ (b.type \in {"update", "delete"} /\ call.op = "build"
            /\ Len(b._wheres) = 0 /\ "allowUnsafe" \notin called)
          => ret = Thrown(IF b.type = "update" /\ "data" \notin called
                          THEN "MissingPayload" ELSE "UnsafeStatement")
    /\ (b.type = "delete" /\ call.op = "build"
            /\ Len(b._wheres) = 0 /\ "allowUnsafe" \in called)
          => /\ ret.k = "built"
             /\ ~Has(ret.sql, " WHERE ")
             /\ SubSeq(ret.sql, 1, 2) = <<"DELETE FROM ", b.table>>
             /\ \A i \in 3 .. Len(ret.sql) : ret.sql[i] \in {" LIMIT ", " OFFSET ", "?"}
             /\ (~LimitSet /\ ~OffsetSet) => ret.sql = <<"DELETE FROM ", b.table>>

\* A delete builder without predicates has built DELETE FROM users after
\* allowUnsafe().
C1_Witness ==
    /\ b.type = "delete" /\ JustBuilt
    /\ Len(b._wheres) = 0 /\ "allowUnsafe" \in called
    /\ ret.sql = <<"DELETE FROM ", "users">>

(***************************************************************************)
(* C2  Placeholder / parameter alignment                                   *)
(***************************************************************************)
\* C2: whenever build() succeeds on a builder whose raw predicates were
\* each given as many parameters as placeholders, the returned params has
\* as many entries as sql has `?` placeholders.
C2_Alignment ==
    (JustBuilt /\ RawAligned) => Len(ret.params) = Count(ret.sql, "?")

\* An update with payload, an aligned predicate, limit and offset was built.
C2_Witness ==
    /\ JustBuilt /\ RawAligned /\ b.type = "update"
    /\ Len(b._data.entries) = 2 /\ Len(b._wheres) = 1
    /\ LimitSet /\ OffsetSet
    /\ Len(ret.params) = 5

(***************************************************************************)
(* C3  Render idempotence                                                  *)
(***************************************************************************)
\* C3: a build() call, returning or raising, leaves every field of the
\* builder as it was, and a build() that directly follows a build()
\* returns (or raises) the same as that one: identical sql and params.
C3_RenderIdempotent ==
    [][call'.op = "build" =>
          /\ b' = b
          /\ call.op = "build" => ret' = ret]_vars

\* build() has returned on a configured builder with debug mode on; the
\* next call may be build() again.
C3_Witness ==
    /\ JustBuilt /\ ncalls >= 2 /\ b._debug
    /\ Len(b._wheres) > 0
    /\ ENABLED DoBuild

(***************************************************************************)
(* C4  Errors                                                              *)
(***************************************************************************)
\* C4: no configuration call raises; build() raises MissingPayload iff
\* the kind is insert or update and data() was never called, raises
\* UnsafeStatement iff the kind is delete, or update with data set, and
\* the predicate list is empty and allowUnsafe() was not called, and
\* succeeds in every other configuration.
C4_Errors ==
    LET missing == b.type \in {"insert", "update"} /\ "data" \notin called
        unsafe  == /\ \/ b.type = "delete"
                      \/ b.type = "update" /\ "data" \in called
                   /\ Len(b._wheres) = 0
                   /\ "allowUnsafe" \notin called
    IN  /\ call.op # "build" => ret = This
        /\ call.op = "build" =>
              /\ ret = Thrown("MissingPayload") <=> missing
              /\ ret = Thrown("UnsafeStatement") <=> unsafe
              /\ ret.k = "built" <=> (~missing /\ ~unsafe)

\* build() raised UnsafeStatement on an update builder with data.
C4_Witness ==
    /\ call.op = "build" /\ b.type = "update" /\ "data" \in called
    /\ ret = Thrown("UnsafeStatement")

(***************************************************************************)
(* C5, C6  Limit, offset, pagination                                       *)
(***************************************************************************)
\* n < 0 on integers of any size.
IsNeg(v) == v.hi < 0

\* max(0, n) on integers of any size.
ClampToZero(n) == IF IsNeg(n) THEN Num(0) ELSE n

\* C5: for integers page >= 1 and pageSize >= 1, paginate(page, pageSize)
\* leaves the builder as limit(pageSize) followed by
\* offset((page - 1) * pageSize) leaves it, whatever was set before.
C5_PaginateAsLimitOffset ==
    call.op = "paginate" =>
        LET page     == call.args[1]
            pageSize == call.args[2]
        IN  (~IsNeg(NumAdd(page, Num(-1))) /\ ~IsNeg(NumAdd(pageSize, Num(-1))))
              => b = offset(limit(b, pageSize),
                            NumMul(NumAdd(page, Num(-1)), pageSize))

\* C6: for every integer n, limit(n) stores max(0, n) as the limit and
\* offset(n) stores max(0, n) as the offset, and build() emits the stored
\* limit and offset as the LIMIT / OFFSET parameters.
C6_LimitOffsetClamp ==
    /\ call.op = "limit" => b._limit = ClampToZero(call.args[1])
    /\ call.op = "offset" => b._offset = ClampToZero(call.args[1])
    /\ (JustBuilt /\ b.type \notin {"insert", "count"}) =>
          LET tail == (IF LimitSet THEN <<b._limit>> ELSE <<>>)
                        \o (IF OffsetSet THEN <<b._offset>> ELSE <<>>)
              n    == Len(ret.params)
          IN  /\ n >= Len(tail)
              /\ SubSeq(ret.params, n - Len(tail) + 1, n) = tail

(***************************************************************************)
(* C7  Predicate ordering                                                  *)
(***************************************************************************)
\* The first position of tok in s (0 when absent).
RECURSIVE IndexFrom(_, _, _)
IndexFrom(s, tok, i) ==
    IF i > Len(s) THEN 0
    ELSE IF s[i] = tok THEN i
    ELSE IndexFrom(s, tok, i + 1)

\* The WHERE clause of sql: from " WHERE " up to the next clause or the end.
WhereClauseOf(sql) ==
    LET start == IndexFrom(sql, " WHERE ", 1)
        ends  == { i \in start + 1 .. Len(sql) :
                      sql[i] \in {" ORDER BY ", " LIMIT ", " OFFSET "} }
        stop  == IF ends = {} THEN Len(sql)
                 ELSE (CHOOSE i \in ends : \A j \in ends : i <= j) - 1
    IN  IF start = 0 THEN <<>> ELSE SubSeq(sql, start, stop)

\* " WHERE f1.sql c2 f2.sql ... cn fn.sql" for the first n fragments.
RECURSIVE WhereOfFragments(_, _)
WhereOfFragments(fs, n) ==
    IF n = 1 THEN <<" WHERE ">> \o fs[1].sql
    ELSE WhereOfFragments(fs, n - 1) \o <<" ", fs[n].connector, " ">> \o fs[n].sql

\* f1.params ++ ... ++ fn.params.
RECURSIVE ParamsOfFragments(_, _)
ParamsOfFragments(fs, n) ==
    IF n = 0 THEN <<>> ELSE ParamsOfFragments(fs, n - 1) \o fs[n].params

\* The parameters build() returned without the leading payload values and
\* the trailing limit / offset.
PredicateSlice ==
    LET nHead == IF b.type = "update" THEN Len(b._data.entries) ELSE 0
        nTail == Count(ret.sql, " LIMIT ") + Count(ret.sql, " OFFSET ")
    IN  SubSeq(ret.params, nHead + 1, Len(ret.params) - nTail)

\* C7: when build() succeeds on a non-insert builder with predicate list
\* f1..fn, n >= 1, the sql holds the clause WHERE f1.sql c2 f2.sql ... cn
\* fn.sql in insertion order (ci the own connector of fragment i, that of
\* f1 ignored), and the predicate parameters are f1.params ++ ... ++
\* fn.params.
C7_PredicateOrder ==
    (JustBuilt /\ b.type # "insert" /\ Len(b._wheres) >= 1) =>
        /\ WhereClauseOf(ret.sql) = WhereOfFragments(b._wheres, Len(b._wheres))
        /\ PredicateSlice = ParamsOfFragments(b._wheres, Len(b._wheres))

\* Three fragments, the first added with OR, the last with a connector
\* other than the second's, were built into a select.
C7_Witness ==
    /\ JustBuilt /\ b.type = "select" /\ Len(b._wheres) = 3
    /\ b._wheres[1].connector = "OR"
    /\ b._wheres[2].connector # b._wheres[3].connector
    /\ Len(PredicateSlice) >= 3

(***************************************************************************)
(* C8  Key order and parameter layout                                      *)
(***************************************************************************)
\* The keys and the values of the most recent data() payload, in key order.
PayloadKeys == [i \in 1 .. Len(b._data.entries) |-> b._data.entries[i].k]

PayloadValues == [i \in 1 .. Len(b._data.entries) |-> b._data.entries[i].v]

\* The i-th column of an INSERT and the i-th assigned column of an UPDATE.
ColumnAt(sql, i) == IF b.type = "insert" THEN sql[2 * i + 2] ELSE sql[4 * i]

\* For insert and update the i-th column or assignment of sql is the i-th
\* payload key and params[i] is its value.
KeyOrder ==
    b.type \in {"insert", "update"} =>
        \A i \in 1 .. Len(PayloadKeys) :
            /\ ColumnAt(ret.sql, i) = PayloadKeys[i]
            /\ ret.params[i] = PayloadValues[i]

\* [limit if rendered] ++ [offset if rendered].
RenderedLimitOffset ==
    (IF Has(ret.sql, " LIMIT ") THEN <<b._limit>> ELSE <<>>)
      \o (IF Has(ret.sql, " OFFSET ") THEN <<b._offset>> ELSE <<>>)

\* C8, as stated: for insert and update the i-th column or assignment is
\* the i-th payload key and params[i] its value; for every kind params is
\* payload values ++ predicate parameters ++ [limit if rendered] ++
\* [offset if rendered].
C8_ParamLayoutAsStated ==
    JustBuilt =>
        /\ KeyOrder
        /\ ret.params = PayloadValues
                          \o ParamsOfFragments(b._wheres, Len(b._wheres))
                          \o RenderedLimitOffset

\* C8, amended: for insert and update the i-th column or assignment is
\* the i-th payload key and params[i] its value; params is the payload
\* values (insert and update only) ++ the predicate parameters (every
\* kind but insert) ++ [limit if rendered] ++ [offset if rendered].
C8_ParamLayout ==
    JustBuilt =>
        /\ KeyOrder
        /\ ret.params =
              (IF b.type \in {"insert", "update"} THEN PayloadValues ELSE <<>>)
                \o (IF b.type # "insert"
                    THEN ParamsOfFragments(b._wheres, Len(b._wheres)) ELSE <<>>)
                \o RenderedLimitOffset

\* An update with a two-key payload, a predicate, a limit and an offset
\* was built.
C8_Witness ==
    /\ JustBuilt /\ b.type = "update"
    /\ Len(PayloadKeys) = 2 /\ PayloadValues[1] # PayloadValues[2]
    /\ Len(b._wheres) = 1 /\ Len(b._wheres[1].params) >= 1
    /\ Has(ret.sql, " LIMIT ") /\ Has(ret.sql, " OFFSET ")

(***************************************************************************)
(* C9  Clause applicability by kind                                        *)
(***************************************************************************)
\* C9: build() appends WHERE only when the kind is not insert, ORDER BY
\* only when the kind is select, LIMIT and OFFSET only when the kind is
\* neither insert nor count (each exactly when configured, OFFSET also
\* without LIMIT); the output of an insert depends only on table and data,
\* and the output of a count does not depend on order, limit or offset.
C9_ClauseApplicability ==
    JustBuilt =>
        /\ Has(ret.sql, " WHERE ") <=> (b.type # "insert" /\ Len(b._wheres) > 0)
        /\ Has(ret.sql, " ORDER BY ") <=> (b.type = "select" /\ Len(b._order) > 0)
        /\ Has(ret.sql, " LIMIT ") <=> (b.type \notin {"insert", "count"} /\ LimitSet)
        /\ Has(ret.sql, " OFFSET ") <=> (b.type \notin {"insert", "count"} /\ OffsetSet)
        /\ b.type = "insert" =>
              ret = Render(data(NewBuilder("insert", b.table), b._data.entries))
        /\ b.type = "count" =>
              ret = Render([b EXCEPT !._order = <<>>, !._limit = Undefined,
                                     !._offset = Undefined])

\* A delete with an offset and no limit was built: OFFSET stands alone.
C9_Witness ==
    /\ JustBuilt /\ b.type = "delete"
    /\ OffsetSet /\ ~LimitSet /\ Len(b._order) > 0
    /\ Has(ret.sql, " OFFSET ") /\ ~Has(ret.sql, " LIMIT ")

(***************************************************************************)
(* C10  Monotone renderability                                             *)
(***************************************************************************)
\* C10: once a build() has succeeded on a builder, every later build() on
\* it succeeds, whatever configuration calls were made in between.
C10_MonotoneRenderable ==
    (builtAt >= 0 /\ call.op = "build") => ret.k = "built"

\* An update was built after two configuration calls, data() was then
\* called with another payload and the update was built once more.
C10_Witness ==
    /\ builtAt = 2 /\ ncalls = 3 /\ JustBuilt /\ b.type = "update"
    /\ call.op = "build" /\ Len(b._data.entries) = 0 /\ Len(b._wheres) = 1

====
